---- MODULE Spec2Model ----
(***************************************************************************)
(* Model of src/generate_short.py: the karaoke caption engine              *)
(* (VideoEngine.create_karaoke_clip) and the pipeline around it            *)
(* (TTSManager, VideoPipeline.run, VideoEngine.assemble_final_video).      *)
(*                                                                         *)
(* Python floats are IEEE-754 binary64.  They are modelled exactly, for    *)
(* positive normal values: a Double is a record [m, e] that stands for     *)
(* m * 2^e, where m is an odd natural written as its bits, most            *)
(* significant first, of at most 53 bits.  The form is canonical, so two   *)
(* Doubles are equal as records exactly when the floats are equal.         *)
(* Pixel positions are kept in half pixels (the value times two), since    *)
(* the code's true divisions by 2 give multiples of 0.5.                   *)
(***************************************************************************)
EXTENDS Integers, Sequences, FiniteSets, TLC

\* ------------------------------------------------------------------------
\* Binary64 arithmetic
\* ------------------------------------------------------------------------

\* bits kept by a binary64 significand
Precision == 53

\* the powers of two that fit a 32-bit integer
Pow2Table ==
    << 1, 2, 4, 8, 16, 32, 64, 128, 256, 512, 1024, 2048, 4096, 8192, 16384,
       32768, 65536, 131072, 262144, 524288, 1048576, 2097152, 4194304,
       8388608, 16777216, 33554432, 67108864, 134217728, 268435456,
       536870912, 1073741824 >>

Pow2(n) == Pow2Table[n + 1]

Zeros(n) == [i \in 1..n |-> 0]

Max(a, b) == IF a > b THEN a ELSE b

Min(a, b) == IF a < b THEN a ELSE b

\* the number of bits of a natural
RECURSIVE BitLen(_)
BitLen(n) == IF n = 0 THEN 0 ELSE 1 + BitLen(n \div 2)

\* the low w bits of a natural, most significant first
PadBits(n, w) == [i \in 1..w |-> (n \div Pow2(w - i)) % 2]

\* the bits of a natural, most significant first; zero is the empty sequence
NatBits(n) == PadBits(n, BitLen(n))

RECURSIVE BitsNat(_)
BitsNat(b) ==
    IF Len(b) = 0 THEN 0 ELSE 2 * BitsNat(SubSeq(b, 1, Len(b) - 1)) + b[Len(b)]

\* the low w bits of a bit string, as a natural
LowNat(a, w) == BitsNat(SubSeq(a, Max(1, Len(a) - w + 1), Len(a)))

\* all but the low w bits of a bit string
HighBits(a, w) == IF Len(a) > w THEN SubSeq(a, 1, Len(a) - w) ELSE <<>>

\* a + b + c on bit strings, 24 bits at a time, c the carry in
RECURSIVE AddCarry(_, _, _)
AddCarry(a, b, c) ==
    LET n == Max(Len(a), Len(b))
        w == Min(n, 24)
        s == LowNat(a, w) + LowNat(b, w) + c
    IN  IF n = 0 THEN (IF c = 1 THEN <<1>> ELSE <<>>)
        ELSE AddCarry(HighBits(a, w), HighBits(b, w), s \div Pow2(w))
                 \o PadBits(s % Pow2(w), w)

BigAdd(a, b) == AddCarry(a, b, 0)

\* schoolbook product, one shift-and-add per bit of b
RECURSIVE BigMul(_, _)
BigMul(a, b) ==
    IF Len(b) = 0 THEN <<>>
    ELSE LET p == BigMul(a, SubSeq(b, 1, Len(b) - 1))
             s == IF Len(p) = 0 THEN <<>> ELSE p \o <<0>>
         IN  IF b[Len(b)] = 1 THEN BigAdd(s, a) ELSE s

\* canonical form: drop the trailing zero bits into the exponent
Norm(b, e) ==
    LET last == CHOOSE i \in 1..Len(b) : b[i] = 1 /\ \A j \in (i + 1)..Len(b) : b[j] = 0
    IN  [m |-> SubSeq(b, 1, last), e |-> e + (Len(b) - last)]

\* round-to-nearest, ties-to-even, of (b + fraction) * 2^e to Precision bits;
\* sticky says that the fraction below the last bit of b is not zero
RoundBits(b, e, sticky) ==
    IF Len(b) <= Precision THEN Norm(b, e)
    ELSE LET keep  == SubSeq(b, 1, Precision)
             guard == b[Precision + 1]
             rest  == sticky \/ (\E i \in (Precision + 2)..Len(b) : b[i] = 1)
             up    == guard = 1 /\ (rest \/ keep[Precision] = 1)
             k2    == IF up THEN BigAdd(keep, <<1>>) ELSE keep
         IN  Norm(k2, e + Len(b) - Precision)

FromInt(n) == Norm(NatBits(n), 0)

\* 4n fraction bits of r / b, for r < b, most significant first, 4 at a time
RECURSIVE QuotBits(_, _, _)
QuotBits(r, b, n) ==
    IF n = 0 THEN <<>>
    ELSE PadBits((r * 16) \div b, 4) \o QuotBits((r * 16) % b, b, n - 1)

\* the remainder left after those 4n bits
RECURSIVE QuotRem(_, _, _)
QuotRem(r, b, n) == IF n = 0 THEN r ELSE QuotRem((r * 16) % b, b, n - 1)

\* the shift s with b * 2^s <= a < b * 2^(s+1), for a >= b
RECURSIVE ShiftUp(_, _)
ShiftUp(a, b) == IF a < 2 * b THEN 0 ELSE 1 + ShiftUp(a, 2 * b)

\* correctly rounded a / b of two positive integers (Python int / int)
DivInt(a, b) ==
    LET s  == IF a >= b THEN ShiftUp(a, b) ELSE 0 - ShiftUp(2 * b - 1, a)
        r0 == IF s >= 0 THEN a ELSE a * Pow2(0 - s)
        b0 == IF s >= 0 THEN b * Pow2(s) ELSE b
        n  == (Precision + 3) \div 4
        q  == <<1>> \o QuotBits(r0 - b0, b0, n)
    IN  RoundBits(q, s - 4 * n, QuotRem(r0 - b0, b0, n) # 0)

\* a * k + c for a bit string a and naturals k < 2^16 and c, 12 bits at a time
RECURSIVE MulCarry(_, _, _)
MulCarry(a, k, c) ==
    LET w == Min(Len(a), 12)
        t == LowNat(a, w) * k + c
    IN  IF Len(a) = 0 THEN NatBits(c)
        ELSE MulCarry(HighBits(a, w), k, t \div Pow2(w)) \o PadBits(t % Pow2(w), w)

\* the exact product of two significands, the shorter one the multiplier
Product(long, short) ==
    IF Len(short) <= 16 THEN MulCarry(long, BitsNat(short), 0)
    ELSE BigMul(long, short)

\* correctly rounded product
DMul(x, y) ==
    LET p == IF Len(x.m) >= Len(y.m) THEN Product(x.m, y.m) ELSE Product(y.m, x.m)
    IN  RoundBits(p, x.e + y.e, FALSE)

\* correctly rounded sum
DAdd(x, y) ==
    LET e  == IF x.e < y.e THEN x.e ELSE y.e
        xm == x.m \o Zeros(x.e - e)
        ym == y.m \o Zeros(y.e - e)
    IN  RoundBits(BigAdd(xm, ym), e, FALSE)

\* x < y on bit strings of equal length
BitsLess(a, b) ==
    \E i \in 1..Len(a) : a[i] < b[i] /\ \A j \in 1..(i - 1) : a[j] = b[j]

DLess(x, y) ==
    LET tx == x.e + Len(x.m)
        ty == y.e + Len(y.m)
        n  == IF Len(x.m) > Len(y.m) THEN Len(x.m) ELSE Len(y.m)
    IN  IF tx # ty THEN tx < ty
        ELSE BitsLess(x.m \o Zeros(n - Len(x.m)), y.m \o Zeros(n - Len(y.m)))

DMax(x, y) == IF DLess(x, y) THEN y ELSE x

\* int(x): truncation toward zero
DTrunc(x) ==
    IF x.e >= 0 THEN BitsNat(x.m) * Pow2(x.e)
    ELSE IF Len(x.m) + x.e <= 0 THEN 0
    ELSE BitsNat(SubSeq(x.m, 1, Len(x.m) + x.e))

\* x * 2^k, exact
DScale(x, k) == [m |-> x.m, e |-> x.e + k]

\* sum(ds), folded from the left as Python's sum and numpy's cumsum do;
\* the leading integer 0 adds exactly
RECURSIVE DSum(_)
DSum(ds) ==
    IF Len(ds) = 1 THEN ds[1]
    ELSE DAdd(DSum(SubSeq(ds, 1, Len(ds) - 1)), ds[Len(ds)])

\* ------------------------------------------------------------------------
\* Inputs
\* ------------------------------------------------------------------------

\* longest sentence explored, in words
MaxWords == 4

\* The words a sentence is drawn from.  A word is its text; len(w) and the
\* size TextClip measures for it (font_size=70, method='label') are read off
\* these tables.  The widths meet max_width exactly (440 + 20 + 440 = 900,
\* 460 + 440 = 900) and pass it (950).
Vocabulary == {"I", "word", "going", "incomprehensibilities"}

Chars(t) ==
    CASE t = "I" -> 1 [] t = "word" -> 4 [] t = "going" -> 5
      [] t = "incomprehensibilities" -> 21

Measure(t) ==
    CASE t = "I" -> [w |-> 40, h |-> 52]
      [] t = "word" -> [w |-> 440, h |-> 52]
      [] t = "going" -> [w |-> 460, h |-> 66]
      [] t = "incomprehensibilities" -> [w |-> 950, h |-> 52]

\* a sentence is given as its whitespace-delimited tokens, in order
Sentences == UNION {[1..n -> Vocabulary] : n \in 0..MaxWords}

\* audio durations explored: 1.0, 2.5 and 3.0 seconds
AudioDurations == {FromInt(1), DScale(FromInt(5), -1), FromInt(3)}

\* ------------------------------------------------------------------------
\* VideoEngine.create_karaoke_clip
\* ------------------------------------------------------------------------

max_width == 900

spacing == 20

canvas_w == 1080

canvas_h == 1920

line_pad == 15

lines_per_page == 2

VARIABLES
    pc,                  \* position in create_karaoke_clip
    sentence,            \* argument: the tokens of the sentence
    audio_duration,      \* argument: a Double
    words,               \* sentence.split()
    word_durations,      \* one Double per word
    word_clips_data,     \* one [text, w, h] per word
    next_word,           \* words the layout loop has consumed
    lines, current_line, current_line_width,
    pages,
    page_no,             \* pages the page loop has consumed
    line_height, start_y2, page_words_flat,
    i,                   \* local word index of the frame loop
    word_global_index,
    final_clips,         \* the frames built so far
    result,              \* "None", or the concatenated clip
    ppc,                 \* position in VideoPipeline.run
    mock_tts,            \* config.mock_tts
    client,              \* TTSManager.client
    limit_sentences,     \* config.limit_sentences; 0 stands for None
    post,                \* the post: [title, body]
    body_sentences,      \* the sentences still to process
    tts_call,            \* the latest generate_audio call and its outcome
    all_audio_clips,
    all_video_segments,
    final_video

karaoke_vars == << pc, sentence, audio_duration, words, word_durations,
                   word_clips_data, next_word, lines, current_line,
                   current_line_width, pages, page_no, line_height, start_y2,
                   page_words_flat, i, word_global_index, final_clips, result >>

pipeline_vars == << ppc, mock_tts, client, limit_sentences, post,
                    body_sentences, tts_call, all_audio_clips,
                    all_video_segments, final_video >>

vars == << karaoke_vars, pipeline_vars >>

layout_vars == << lines, current_line, current_line_width, next_word >>

page_vars == << line_height, start_y2, page_words_flat, i >>

input_vars == << sentence, audio_duration, words, word_durations, word_clips_data >>

RECURSIVE SumChars(_)
SumChars(ws) ==
    IF Len(ws) = 0 THEN 0
    ELSE SumChars(SubSeq(ws, 1, Len(ws) - 1)) + Chars(ws[Len(ws)])

\* variant: each word's share is taken of the word count, not of total_chars
WordDurationsByWordCount(ws, dur) ==
    [n \in 1..Len(ws) |-> DMul(DivInt(Chars(ws[n]), Len(ws)), dur)]

\* word_durations = [(len(w) / total_chars) * audio_duration for w in words]
WordDurations(ws, dur) ==
    [n \in 1..Len(ws) |-> DMul(DivInt(Chars(ws[n]), SumChars(ws)), dur)]

\* word_clips_data: the measured words
WordClipsData(ws) ==
    [n \in 1..Len(ws) |-> [text |-> ws[n], w |-> Measure(ws[n]).w, h |-> Measure(ws[n]).h]]

\* the pipeline is not running
PipelineIdle ==
    /\ ppc = "idle"
    /\ mock_tts = FALSE
    /\ client = "None"
    /\ limit_sentences = 0
    /\ post = [title |-> 1, body |-> <<>>]
    /\ body_sentences = <<>>
    /\ tts_call = [made |-> FALSE]
    /\ all_audio_clips = <<>>
    /\ all_video_segments = <<>>
    /\ final_video = "None"

Init ==
    /\ pc = "begin"
    /\ sentence \in Sentences
    /\ audio_duration \in AudioDurations
    /\ words = <<>>
    /\ word_durations = <<>>
    /\ word_clips_data = <<>>
    /\ next_word = 0
    /\ lines = <<>>
    /\ current_line = <<>>
    /\ current_line_width = 0
    /\ pages = <<>>
    /\ page_no = 0
    /\ line_height = 0
    /\ start_y2 = 0
    /\ page_words_flat = <<>>
    /\ i = 0
    /\ word_global_index = 0
    /\ final_clips = <<>>
    /\ result = "pending"
    /\ PipelineIdle

\* lines 217-231: split, return None on no words, time and measure the words
Begin ==
    /\ pc = "begin"
    /\ words' = sentence
    /\ IF Len(sentence) = 0
       THEN /\ pc' = "done"
            /\ result' = "None"
            /\ UNCHANGED << word_durations, word_clips_data >>
       ELSE /\ pc' = "layout"
            /\ result' = result
            /\ word_durations' = WordDurations(sentence, audio_duration)
            /\ word_clips_data' = WordClipsData(sentence)
    /\ lines' = <<>>
    /\ current_line' = <<>>
    /\ current_line_width' = 0
    /\ next_word' = 0
    /\ UNCHANGED << sentence, audio_duration, pages, page_no, page_vars,
                    word_global_index, final_clips, pipeline_vars >>

\* variant: a wrap resets the running width to 0 instead of the word width
LayoutWordResetZero ==
    /\ pc = "layout"
    /\ next_word < Len(word_clips_data)
    /\ LET data == word_clips_data[next_word + 1]
       IN  IF current_line_width + data.w > max_width
           THEN /\ lines' = Append(lines, current_line)
                /\ current_line' = <<data>>
                /\ current_line_width' = 0
           ELSE /\ lines' = lines
                /\ current_line' = Append(current_line, data)
                /\ current_line_width' = current_line_width + data.w + spacing
    /\ next_word' = next_word + 1
    /\ UNCHANGED << pc, input_vars, pages, page_no, page_vars,
                    word_global_index, final_clips, result, pipeline_vars >>

\* lines 233-239: one pass of the layout loop
LayoutWord ==
    /\ pc = "layout"
    /\ next_word < Len(word_clips_data)
    /\ LET data == word_clips_data[next_word + 1]
       IN  IF current_line_width + data.w > max_width
           THEN /\ lines' = Append(lines, current_line)
                /\ current_line' = <<data>>
                /\ current_line_width' = data.w
           ELSE /\ lines' = lines
                /\ current_line' = Append(current_line, data)
                /\ current_line_width' = current_line_width + data.w + spacing
    /\ next_word' = next_word + 1
    /\ UNCHANGED << pc, input_vars, pages, page_no, page_vars,
                    word_global_index, final_clips, result, pipeline_vars >>

\* line 240: flush the open line
FlushLine ==
    /\ pc = "layout"
    /\ next_word = Len(word_clips_data)
    /\ lines' = IF Len(current_line) > 0 THEN Append(lines, current_line) ELSE lines
    /\ pc' = "paginate"
    /\ UNCHANGED << input_vars, current_line, current_line_width, next_word,
                    pages, page_no, page_vars, word_global_index,
                    final_clips, result, pipeline_vars >>

\* variant: range(0, len(lines) - 1, 2), which loses an odd last line
PagesDropOddLine(ls) ==
    [n \in 1..(Len(ls) \div lines_per_page) |->
        SubSeq(ls, lines_per_page * (n - 1) + 1, lines_per_page * n)]

\* pages = [lines[i:i+2] for i in range(0, len(lines), 2)]
Pages(ls) ==
    [n \in 1..((Len(ls) + lines_per_page - 1) \div lines_per_page) |->
        SubSeq(ls, lines_per_page * (n - 1) + 1, Min(lines_per_page * n, Len(ls)))]

\* lines 243-245
Paginate ==
    /\ pc = "paginate"
    /\ pages' = Pages(lines)
    /\ final_clips' = <<>>
    /\ word_global_index' = 0
    /\ page_no' = 0
    /\ pc' = "page"
    /\ UNCHANGED << input_vars, layout_vars, page_vars, result, pipeline_vars >>

\* [w for line in page for w in line]
RECURSIVE Flatten(_)
Flatten(page) ==
    IF Len(page) = 0 THEN <<>>
    ELSE Flatten(SubSeq(page, 1, Len(page) - 1)) \o page[Len(page)]

RECURSIVE MaxH(_)
MaxH(ws) ==
    IF Len(ws) = 1 THEN ws[1].h
    ELSE Max(MaxH(SubSeq(ws, 1, Len(ws) - 1)), ws[Len(ws)].h)

RECURSIVE SumW(_)
SumW(ws) ==
    IF Len(ws) = 0 THEN 0 ELSE SumW(SubSeq(ws, 1, Len(ws) - 1)) + ws[Len(ws)].w

\* lines 247-252: enter the next page; max() of an empty page raises
StartPage ==
    /\ pc = "page"
    /\ page_no < Len(pages)
    /\ LET page == pages[page_no + 1]
           flat == Flatten(page)
       IN  IF Len(flat) = 0
           THEN /\ pc' = "ValueError"
                /\ UNCHANGED page_vars
           ELSE /\ line_height' = MaxH(flat) + line_pad
                /\ start_y2' = canvas_h - Len(page) * (MaxH(flat) + line_pad)
                /\ page_words_flat' = flat
                /\ i' = 0
                /\ pc' = "frame"
    /\ UNCHANGED << input_vars, layout_vars, pages, page_no,
                    word_global_index, final_clips, result, pipeline_vars >>

\* line_total_width = sum(w['w'] for w in line) + (len(line)-1)*20
LineTotalWidth(line) == SumW(line) + (Len(line) - 1) * spacing

\* variant: temp_idx_counter restarts on every line
LineTextsPerLineCounter(line, y2, before, active) ==
    [n \in 1..Len(line) |->
        [ text  |-> line[n].text,
          color |-> IF n - 1 = active THEN "yellow" ELSE "white",
          x2    |-> (canvas_w - LineTotalWidth(line))
                        + 2 * (SumW(SubSeq(line, 1, n - 1)) + (n - 1) * spacing),
          y2    |-> y2 ]]

\* variant: the words after the active one are pushed right by its stroke
LineTextsStrokeShift(line, y2, before, active) ==
    [n \in 1..Len(line) |->
        [ text  |-> line[n].text,
          color |-> IF before + (n - 1) = active THEN "yellow" ELSE "white",
          x2    |-> (canvas_w - LineTotalWidth(line))
                        + 2 * (SumW(SubSeq(line, 1, n - 1)) + (n - 1) * spacing)
                        + (IF before + (n - 1) > active THEN 12 ELSE 0),
          y2    |-> y2 ]]

\* lines 262-278: the texts of one line of a frame; before is the value of
\* temp_idx_counter on entry, active the local index i of the frame
LineTexts(line, y2, before, active) ==
    [n \in 1..Len(line) |->
        [ text  |-> line[n].text,
          color |-> IF before + (n - 1) = active THEN "yellow" ELSE "white",
          x2    |-> (canvas_w - LineTotalWidth(line))
                        + 2 * (SumW(SubSeq(line, 1, n - 1)) + (n - 1) * spacing),
          y2    |-> y2 ]]

\* lines 256-279: frame_texts of the frame whose local index is active
RECURSIVE FrameTexts(_, _, _, _)
FrameTexts(page, lh, sy2, active) ==
    IF Len(page) = 0 THEN <<>>
    ELSE LET above == SubSeq(page, 1, Len(page) - 1)
         IN  FrameTexts(above, lh, sy2, active)
                 \o LineTexts(page[Len(page)], sy2 + 2 * Len(above) * lh,
                              Len(Flatten(above)), active)

\* variant: the duration is looked up by the page-local index i
BuildFrameLocalIndex ==
    /\ pc = "frame"
    /\ i < Len(page_words_flat)
    /\ IF word_global_index >= Len(word_durations)
       THEN /\ pc' = "IndexError"
            /\ UNCHANGED << final_clips, i, word_global_index >>
       ELSE /\ final_clips' = Append(final_clips,
                [ duration |-> word_durations[i + 1],
                  page     |-> page_no + 1,
                  texts    |-> FrameTexts(pages[page_no + 1], line_height,
                                          start_y2, i) ])
            /\ word_global_index' = word_global_index + 1
            /\ i' = i + 1
            /\ pc' = pc
    /\ UNCHANGED << input_vars, layout_vars, pages, page_no, line_height,
                    start_y2, page_words_flat, result, pipeline_vars >>

\* lines 254-283: one pass of the frame loop; an index past the end of
\* word_durations raises
BuildFrame ==
    /\ pc = "frame"
    /\ i < Len(page_words_flat)
    /\ IF word_global_index >= Len(word_durations)
       THEN /\ pc' = "IndexError"
            /\ UNCHANGED << final_clips, i, word_global_index >>
       ELSE /\ final_clips' = Append(final_clips,
                [ duration |-> word_durations[word_global_index + 1],
                  page     |-> page_no + 1,
                  texts    |-> FrameTexts(pages[page_no + 1], line_height,
                                          start_y2, i) ])
            /\ word_global_index' = word_global_index + 1
            /\ i' = i + 1
            /\ pc' = pc
    /\ UNCHANGED << input_vars, layout_vars, pages, page_no, line_height,
                    start_y2, page_words_flat, result, pipeline_vars >>

\* line 254 exhausted: back to the page loop
EndPage ==
    /\ pc = "frame"
    /\ i = Len(page_words_flat)
    /\ page_no' = page_no + 1
    /\ pc' = "page"
    /\ UNCHANGED << input_vars, layout_vars, pages, page_vars,
                    word_global_index, final_clips, result, pipeline_vars >>

\* the durations of the frames, in order
FrameDurations(clips) == [n \in 1..Len(clips) |-> clips[n].duration]

\* line 285: concatenate_videoclips; the clip lasts the sum of its frames
Concatenate ==
    /\ pc = "page"
    /\ page_no = Len(pages)
    /\ result' = [duration |-> DSum(FrameDurations(final_clips))]
    /\ pc' = "done"
    /\ UNCHANGED << input_vars, layout_vars, pages, page_no, page_vars,
                    word_global_index, final_clips, pipeline_vars >>

Next ==
    \/ Begin
    \/ LayoutWord
    \/ FlushLine
    \/ Paginate
    \/ StartPage
    \/ BuildFrame
    \/ EndPage
    \/ Concatenate

Spec == Init /\ [][Next]_vars

\* ------------------------------------------------------------------------
\* TTSManager and VideoPipeline
\* ------------------------------------------------------------------------

\* most body sentences of a post explored
MaxSentences == 3

avg_wpm == 180

sample_rate == 44100

\* A text is given by the number of words of its cleaned, spoken form; a
\* body piece of 0 words is a blank piece, which split_text_smartly drops.
TitleWords == {5}

SentenceWords == {17, 60}

Bodies == UNION {[1..n -> SentenceWords \cup {0}] : n \in 0..MaxSentences}

\* the duration AudioFileClip reads from a synthesised file: 12.5 seconds
ActualDurations == {DScale(FromInt(25), -1)}

\* what the body of the try block of generate_audio can do
TtsOutcomes == {"ok", "synthesize_error", "write_error", "read_error"}

\* estimated_dur = max(1.0, (word_count / avg_wpm) * 60)
EstimatedDur(word_count) ==
    DMax(FromInt(1), DMul(DivInt(word_count, avg_wpm), FromInt(60)))

\* variant: the try block ends after synthesize_speech, so a failure to
\* write or read the file propagates
GenerateAudioNarrowTry(mock, word_count, outcome, actual_dur) ==
    IF mock
    THEN [file |-> "None", duration |-> EstimatedDur(word_count), raised |-> FALSE]
    ELSE IF outcome = "ok"
    THEN [file |-> "tts.mp3", duration |-> actual_dur, raised |-> FALSE]
    ELSE [file |-> "None", duration |-> EstimatedDur(word_count),
          raised |-> outcome \in {"write_error", "read_error"}]

\* TTSManager.generate_audio: (filepath, duration), and whether it raised.
\* The except clause covers the whole try block, so no outcome raises.
GenerateAudio(mock, word_count, outcome, actual_dur) ==
    IF mock
    THEN [file |-> "None", duration |-> EstimatedDur(word_count), raised |-> FALSE]
    ELSE IF outcome = "ok"
    THEN [file |-> "tts.mp3", duration |-> actual_dur, raised |-> FALSE]
    ELSE [file |-> "None", duration |-> EstimatedDur(word_count), raised |-> FALSE]

\* AudioArrayClip(np.zeros((int(44100 * duration), 2)), fps=44100): its
\* duration is the sample count over fps
SilentClip(duration) ==
    LET n == DTrunc(DMul(FromInt(sample_rate), duration))
    IN  [kind |-> "silence", samples |-> n, duration |-> DivInt(n, sample_rate)]

\* VideoPipeline._add_audio_clip: the clip appended to the list
AudioClipOf(file_path, duration) ==
    IF file_path = "None" THEN SilentClip(duration)
    ELSE [kind |-> "file", samples |-> 0, duration |-> duration]

\* split_text_smartly keeps [s for s in sentences if s.strip()]
RECURSIVE NonBlank(_)
NonBlank(ss) ==
    IF Len(ss) = 0 THEN <<>>
    ELSE LET rest == NonBlank(SubSeq(ss, 1, Len(ss) - 1))
         IN  IF ss[Len(ss)] > 0 THEN Append(rest, ss[Len(ss)]) ELSE rest

\* the karaoke engine is idle
KaraokeIdle ==
    /\ pc = "idle"
    /\ sentence = <<>>
    /\ audio_duration = FromInt(1)
    /\ words = <<>>
    /\ word_durations = <<>>
    /\ word_clips_data = <<>>
    /\ next_word = 0
    /\ lines = <<>>
    /\ current_line = <<>>
    /\ current_line_width = 0
    /\ pages = <<>>
    /\ page_no = 0
    /\ line_height = 0
    /\ start_y2 = 0
    /\ page_words_flat = <<>>
    /\ i = 0
    /\ word_global_index = 0
    /\ final_clips = <<>>
    /\ result = "pending"

PipelineInit ==
    /\ KaraokeIdle
    /\ ppc = "construct"
    /\ mock_tts \in BOOLEAN
    /\ client = "None"
    /\ limit_sentences \in {0, 2, 3}
    /\ post \in [title : TitleWords, body : Bodies]
    /\ body_sentences = <<>>
    /\ tts_call = [made |-> FALSE]
    /\ all_audio_clips = <<>>
    /\ all_video_segments = <<>>
    /\ final_video = "None"

\* lines 120-129: TTSManager.__init__; a client that cannot be built turns
\* mock mode on
Construct ==
    /\ ppc = "construct"
    /\ \E built \in BOOLEAN :
          IF mock_tts THEN /\ client' = "None"
                           /\ mock_tts' = mock_tts
          ELSE IF built THEN /\ client' = "client"
                             /\ mock_tts' = mock_tts
          ELSE /\ client' = "None"
               /\ mock_tts' = TRUE
    /\ ppc' = "run"
    /\ UNCHANGED << limit_sentences, post, body_sentences, tts_call,
                    all_audio_clips, all_video_segments, final_video,
                    karaoke_vars >>

\* lines 345-360: split the body, apply limit_sentences
BeginRun ==
    /\ ppc = "run"
    /\ LET split == NonBlank(post.body)
       IN  body_sentences' =
               IF limit_sentences # 0
               THEN SubSeq(split, 1, Min(limit_sentences, Len(split)))
               ELSE split
    /\ all_video_segments' = <<>>
    /\ all_audio_clips' = <<>>
    /\ ppc' = "title"
    /\ UNCHANGED << mock_tts, client, limit_sentences, post, tts_call,
                    final_video, karaoke_vars >>

\* generate_audio followed by _add_audio_clip and the clip builder, as
\* lines 365-367 and 373-377 call them; kind names the clip builder
Generate(word_count, kind, next_ppc) ==
    \E outcome \in TtsOutcomes, actual_dur \in ActualDurations :
        LET r == GenerateAudio(mock_tts, word_count,
                               IF mock_tts THEN "mock" ELSE outcome, actual_dur)
        IN  /\ tts_call' = [ made |-> TRUE, word_count |-> word_count,
                             outcome |-> IF mock_tts THEN "mock" ELSE outcome,
                             file |-> r.file, duration |-> r.duration,
                             raised |-> r.raised ]
            /\ IF r.raised
               THEN /\ ppc' = "exception"
                    /\ UNCHANGED << all_audio_clips, all_video_segments >>
               ELSE /\ all_audio_clips' =
                          Append(all_audio_clips, AudioClipOf(r.file, r.duration))
                    /\ all_video_segments' =
                          Append(all_video_segments,
                                 [kind |-> kind, duration |-> r.duration])
                    /\ ppc' = next_ppc

\* lines 365-367: the title
GenerateTitle ==
    /\ ppc = "title"
    /\ Generate(post.title, "title_card", "body")
    /\ UNCHANGED << mock_tts, client, limit_sentences, post, body_sentences,
                    final_video, karaoke_vars >>

\* lines 371-377: one pass of the body loop
GenerateSentence ==
    /\ ppc = "body"
    /\ Len(body_sentences) > 0
    /\ Generate(Head(body_sentences), "karaoke", "body")
    /\ body_sentences' = Tail(body_sentences)
    /\ UNCHANGED << mock_tts, client, limit_sentences, post, final_video,
                    karaoke_vars >>

\* the durations of the audio clips, in order
ClipDurations(clips) == [n \in 1..Len(clips) |-> clips[n].duration]

\* lines 380 and 287-328: total_duration = full_audio.duration, and
\* final.with_duration(total_duration)
AssembleFinalVideo ==
    /\ ppc = "body"
    /\ Len(body_sentences) = 0
    /\ final_video' = [duration |-> DSum(ClipDurations(all_audio_clips))]
    /\ ppc' = "done"
    /\ UNCHANGED << mock_tts, client, limit_sentences, post, body_sentences,
                    tts_call, all_audio_clips, all_video_segments,
                    karaoke_vars >>

PipelineNext ==
    \/ Construct
    \/ BeginRun
    \/ GenerateTitle
    \/ GenerateSentence
    \/ AssembleFinalVideo

PipelineSpec == PipelineInit /\ [][PipelineNext]_vars

\* ------------------------------------------------------------------------
\* Properties of create_karaoke_clip
\* ------------------------------------------------------------------------

laid_out == pc \notin {"begin", "layout"} /\ Len(words) > 0

\* the words on the lines before line n
WordsBeforeLine(ls, n) == Len(Flatten(SubSeq(ls, 1, n - 1)))

\* the words on the pages before page p
WordsBeforePage(p) == Len(Flatten(Flatten(SubSeq(pages, 1, p - 1))))

\* the local indices of the words a frame marks active
ActiveOf(f) == {j \in 1..Len(f.texts) : f.texts[j].color = "yellow"}

\* C1: every line the layout loop has emitted is at most max_width wide,
\* spacing included, unless it holds exactly one word.
C1_LineWidthBound ==
    \A n \in 1..Len(lines) :
        Len(lines[n]) = 1 \/ LineTotalWidth(lines[n]) <= max_width

\* C2: a sentence of N words yields N frames; every frame marks exactly one
\* word active, and the active word of the k-th frame is the k-th word of
\* the sentence, counted across all pages.
C2_OneFramePerWord ==
    /\ \A k \in 1..Len(final_clips) :
          LET f == final_clips[k]
          IN  /\ Cardinality(ActiveOf(f)) = 1
              /\ \A j \in ActiveOf(f) :
                    /\ WordsBeforePage(f.page) + j = k
                    /\ f.texts[j].text = words[k]
    /\ (pc = "done" /\ Len(words) > 0) => Len(final_clips) = Len(words)

C2_Witness ==
    /\ pc = "done"
    /\ Len(pages) >= 2
    /\ Len(final_clips) >= 3
    /\ Len(pages[1]) = 2 /\ Len(pages[1][1]) >= 1 /\ Len(pages[1][2]) >= 1

\* where a text sits in a frame, without its colour
Placed(t) == [text |-> t.text, x2 |-> t.x2, y2 |-> t.y2]

Placement(f) == [j \in 1..Len(f.texts) |-> Placed(f.texts[j])]

\* C3: all frames of one page place every word at the same (x, y); a frame
\* renders exactly the words of its page, in reading order.
C3_StablePositions ==
    /\ \A a, b \in 1..Len(final_clips) :
          final_clips[a].page = final_clips[b].page
              => Placement(final_clips[a]) = Placement(final_clips[b])
    /\ \A a \in 1..Len(final_clips) :
          LET f == final_clips[a]
              flat == Flatten(pages[f.page])
          IN  /\ Len(f.texts) = Len(flat)
              /\ \A j \in 1..Len(flat) : f.texts[j].text = flat[j].text

C3_Witness ==
    /\ pc = "done"
    /\ \E a, b \in 1..Len(final_clips) :
          /\ a # b
          /\ final_clips[a].page = final_clips[b].page
          /\ final_clips[a].texts # final_clips[b].texts
          /\ Len(pages[final_clips[a].page]) = 2

\* C4 as stated: the word durations, and the durations of the frames, sum
\* to audio_duration exactly.
C4_DurationsSumExact ==
    /\ laid_out => DSum(word_durations) = audio_duration
    /\ (pc = "done" /\ Len(words) > 0) => result.duration = audio_duration

\* |x - d| <= d / 10^6, decided on the values scaled by 2^22 and truncated
RelClose(x, d) ==
    LET a == DTrunc(DScale(x, 22))
        b == DTrunc(DScale(d, 22))
        diff == IF a > b THEN a - b ELSE b - a
    IN  diff < 1000 /\ (diff + 1) * 1000000 <= b

\* C4 amended: the word durations, and the durations of the frames, sum to
\* audio_duration within a relative error of 1e-6.
C4_DurationsSumClose ==
    /\ laid_out => RelClose(DSum(word_durations), audio_duration)
    /\ (pc = "done" /\ Len(words) > 0) => RelClose(result.duration, audio_duration)

C4_Witness ==
    /\ pc = "done"
    /\ Len(words) >= 2
    /\ result.duration # audio_duration

\* C7: the pages are the lines taken two at a time in order, the last page
\* holding one line when the line count is odd; no lines give no pages.
C7_Pagination ==
    /\ Len(Pages(<<>>)) = 0
    /\ pc \notin {"begin", "layout", "paginate"} /\ Len(words) > 0 =>
          /\ Flatten(pages) = lines
          /\ 2 * Len(pages) = Len(lines) + (Len(lines) % 2)
          /\ \A p \in 1..Len(pages) :
                Len(pages[p]) = IF p = Len(pages) /\ Len(lines) % 2 = 1
                                THEN 1 ELSE 2

C7_Witness == pc = "done" /\ Len(lines) = 3 /\ Len(pages) = 2

\* the line that holds the k-th word of the sentence
LineOf(k) ==
    CHOOSE n \in 1..Len(lines) :
        WordsBeforeLine(lines, n) < k /\ k <= WordsBeforeLine(lines, n + 1)

\* C8: a word wider than max_width, wherever it stands, ends on a line of
\* exactly that word, and the clip is built without an error.
C8_WideWordAlone ==
    /\ pc \notin {"ValueError", "IndexError"}
    /\ laid_out =>
          \A k \in 1..Len(words) :
              word_clips_data[k].w > max_width =>
                  /\ \E n \in 1..Len(lines) :
                        WordsBeforeLine(lines, n) < k /\ k <= WordsBeforeLine(lines, n + 1)
                  /\ lines[LineOf(k)] = << word_clips_data[k] >>

C8_Witness ==
    /\ pc = "done"
    /\ Len(words) >= 3
    /\ word_clips_data[1].w > max_width
    /\ word_clips_data[2].w <= max_width
    /\ word_clips_data[3].w > max_width

\* C9: the frame of the word at global index k lasts word_durations[k];
\* word_global_index counts the frames emitted and never runs past the end
\* of word_durations.
C9_GlobalIndexDuration ==
    /\ pc # "IndexError"
    /\ word_global_index = Len(final_clips)
    /\ word_global_index <= Len(word_durations)
    /\ \A k \in 1..Len(final_clips) :
          final_clips[k].duration = word_durations[k]

C9_Witness ==
    /\ pc = "done"
    /\ Len(pages) >= 2
    /\ \E k \in 1..Len(final_clips) :
          /\ final_clips[k].page = 2
          /\ word_durations[k] # word_durations[k - WordsBeforePage(2)]

\* C10: every emitted line holds a word, the lines in order are the words of
\* the sentence, and so a page has as many lines as it has rows with words.
C10_NoEmptyLine ==
    laid_out =>
        /\ \A n \in 1..Len(lines) : Len(lines[n]) >= 1
        /\ Flatten(lines) = word_clips_data
        /\ pc \notin {"paginate"} =>
              \A p \in 1..Len(pages) :
                  Len(pages[p]) = Cardinality({n \in 1..Len(pages[p]) : Len(pages[p][n]) >= 1})

\* ------------------------------------------------------------------------
\* Properties of the pipeline
\* ------------------------------------------------------------------------

\* C5: the final video lasts at most 59 seconds.
C5_DurationCap ==
    ppc = "done" => ~ DLess(FromInt(59), final_video.duration)

\* 44100 * max(1, 60 * word_count / avg_wpm) in exact arithmetic, times avg_wpm
ExactSamplesTimesWpm(word_count) ==
    Max(sample_rate * avg_wpm, sample_rate * 60 * word_count)

\* C6: when TTS is mocked or any step of the synthesis fails, generate_audio
\* raises nothing and returns (None, estimated duration); the clip appended
\* is silence of that duration, cut to a whole sample; the run goes on.
C6_TtsFallback ==
    /\ ppc # "exception"
    /\ (tts_call.made /\ (mock_tts \/ tts_call.outcome # "ok")) =>
          /\ ~ tts_call.raised
          /\ tts_call.file = "None"
          /\ tts_call.duration = EstimatedDur(tts_call.word_count)
          /\ Len(all_audio_clips) >= 1
          /\ LET clip == all_audio_clips[Len(all_audio_clips)]
                 n == DTrunc(DMul(FromInt(sample_rate), EstimatedDur(tts_call.word_count)))
             IN  /\ clip.kind = "silence"
                 /\ clip.samples = n
                 /\ clip.duration = DivInt(n, sample_rate)
                 /\ n * avg_wpm <= ExactSamplesTimesWpm(tts_call.word_count)
                 /\ ExactSamplesTimesWpm(tts_call.word_count) - n * avg_wpm <= avg_wpm

C6_Witness ==
    /\ ppc = "done"
    /\ client = "client"
    /\ tts_call.made
    /\ tts_call.outcome = "read_error"
    /\ Len(all_audio_clips) >= 3
    /\ \E n \in 1..Len(all_audio_clips) : all_audio_clips[n].kind = "file"
====
